---- MODULE Spec2Model ----
(***************************************************************************)
(* A model of the LLM backend: the service layer (llm_service.py), the     *)
(* request schema (models.py) and the two chat routes (routes.py).         *)
(*                                                                         *)
(* Text is a sequence of characters.  The provider (the OpenAI client) is  *)
(* the environment: what it returns or raises is chosen nondeterministi-   *)
(* cally.  A Python exception is a record [cls, msg]; None is the record   *)
(* None, a present value v is Some(v).                                     *)
(***************************************************************************)
EXTENDS Integers, Sequences, FiniteSets, TLC

VARIABLES
    api_key,        \* self.client.api_key is truthy
    args,           \* the arguments of the service call in progress
    pc,             \* position of the call / of the generator
    model,          \* the local `model` after defaulting
    requests,       \* the requests the provider client has received, in order
    chunks,         \* the chunks the provider stream has delivered, in order
    full_response,  \* the local accumulator of chat_completion_stream
    events,         \* the events the generator has yielded, in order
    raised,         \* the exception raised inside the try block, or NoExc
    clock,          \* the last value datetime.utcnow() returned
    result,         \* what chat_completion returned or raised
    validation,     \* what validate_parameters returned
    body,           \* the JSON body of the HTTP request
    http,           \* the answer of the route handler
    outcome         \* what generate_recipes returned

vars == << api_key, args, pc, model, requests, chunks, full_response, events,
           raised, clock, result, validation, body, http, outcome >>

----------------------------------------------------------------------------
\* Bounds of the model.

\* The provider stream delivers at most this many chunks.
MaxChunks == 3
\* datetime.utcnow() returns a value of 0..MaxTime, never decreasing.
MaxTime == 1

----------------------------------------------------------------------------
\* Values.

None == [some |-> FALSE, val |-> << >>]
Some(v) == [some |-> TRUE, val |-> v]

NoExc == [cls |-> "none", msg |-> << >>]
Exc(c, m) == [cls |-> c, msg |-> m]

\* The catalog built in __init__.
available_models == << [id |-> "gpt-3.5-turbo", max_tokens |-> 4096],
                       [id |-> "gpt-4o-mini", max_tokens |-> 8192] >>
default_model == "gpt-3.5-turbo"

CULINARY_ASSISTANT_PROMPT == << "P" >>

\* The exception classes the provider client raises, with the classes each
\* one is an instance of (openai's hierarchy: the status errors and the
\* connection error derive from APIError).
ExcClasses == { "AuthenticationError", "RateLimitError", "APIError",
                "APIConnectionError", "IndexError" }
Bases(c) ==
    CASE c = "AuthenticationError" -> { "AuthenticationError", "APIError", "Exception" }
      [] c = "RateLimitError" -> { "RateLimitError", "APIError", "Exception" }
      [] c = "APIError" -> { "APIError", "Exception" }
      [] c = "APIConnectionError" -> { "APIConnectionError", "APIError", "Exception" }
      [] c = "ValueError" -> { "ValueError", "Exception" }
      [] c = "HTTPException" -> { "HTTPException", "Exception" }
      [] OTHER -> { c, "Exception" }
IsInstance(e, c) == c \in Bases(e.cls)

\* What the provider may raise: one exception of each class, carrying the
\* provider's message.
ProviderExcs == { Exc(c, << "m" >>) : c \in ExcClasses }

\* The content fragments a chunk may carry (the empty text included).
Fragments == { << >>, << "a" >>, << "a", "b" >> }
\* chunk.choices[0].delta.content of a delivered chunk.
ChunkContents == { None } \cup { Some(f) : f \in Fragments }

Times == 0 .. MaxTime

----------------------------------------------------------------------------
\* Composition of the provider request.

\* conversation_history[-10:] keeps at most this many turns.
HistoryLimit == 10

\* conversation_history[:10]: the first turns instead of the last.
LastTen_first(h) ==
    IF Len(h) > HistoryLimit THEN SubSeq(h, 1, HistoryLimit) ELSE h

\* conversation_history[-10:]
LastTen(h) ==
    IF Len(h) > HistoryLimit THEN SubSeq(h, Len(h) - HistoryLimit + 1, Len(h)) ELSE h

Turn(r, c) == [role |-> r, content |-> c]

\* The messages array chat_completion builds.
chat_completion_messages(message, history) ==
    LET kept == LastTen(history)
    IN  << Turn("system", CULINARY_ASSISTANT_PROMPT) >>
          \o [i \in 1 .. Len(kept) |-> Turn(kept[i].role, kept[i].content)]
          \o << Turn("user", message) >>

\* The messages array chat_completion_stream builds.
chat_completion_stream_messages(message, history) ==
    LET kept == LastTen(history)
    IN  << Turn("system", CULINARY_ASSISTANT_PROMPT) >>
          \o [i \in 1 .. Len(kept) |-> Turn(kept[i].role, kept[i].content)]
          \o << Turn("user", message) >>

\* `if not model: model = self.default_model`
ModelOrDefault(m) == IF m = "" THEN default_model ELSE m

\* The keyword arguments of self.client.chat.completions.create.
Request(m, msgs, temp, maxtok, streaming) ==
    [model |-> m, messages |-> msgs, temperature |-> temp,
     max_tokens |-> maxtok, stream |-> streaming]

\* raise ValueError("OpenAI API key not configured")
NoKeyError == Exc("ValueError", << "OpenAI API key not configured" >>)

----------------------------------------------------------------------------
\* chat_completion_stream: a generator.  The consumer drives it with next()
\* (Begin, Resume) and may close it at a yield (Close); between two yields
\* the generator pulls chunks from the provider stream (PullChunk).
\*   created     the generator object exists, no code has run
\*   at_start    suspended at the yield of the start event
\*   loop        running the for loop, about to ask the stream for a chunk
\*   at_content  suspended at the yield of a content event
\*   at_end      suspended at the yield of the end event
\*   at_error    suspended at the yield of an except clause
\*   done        returned (StopIteration)
\*   closed      closed by the consumer

StartEvent(m, t) == [type |-> "start", model |-> m, timestamp |-> t]
ContentEvent(c) == [type |-> "content", content |-> c]
EndEvent(full, m, t) ==
    [type |-> "end", full_response |-> full, model_used |-> m, timestamp |-> t]
ErrorEvent(msg) == [type |-> "error", error |-> msg]

\* The except clauses of chat_completion_stream, in their order.
StreamErrorEvent(e) ==
    IF IsInstance(e, "AuthenticationError")
    THEN ErrorEvent(<< "Invalid OpenAI API key" >>)
    ELSE IF IsInstance(e, "RateLimitError")
    THEN ErrorEvent(<< "Rate limit exceeded. Please try again later." >>)
    ELSE IF IsInstance(e, "APIError")
    THEN ErrorEvent(<< "OpenAI API error: " >> \o e.msg)
    ELSE ErrorEvent(<< "Error generating response: " >> \o e.msg)

\* An exception e leaves the try block: its except clause yields one event.
StreamFail(e) ==
    /\ raised' = e
    /\ events' = Append(events, StreamErrorEvent(e))
    /\ pc' = "at_error"

\* datetime.utcnow(): a time not before the last one read.
UtcNow(t) == t \in Times /\ t >= clock /\ clock' = t

\* The first next(): the code up to the first yield.
Begin ==
    /\ pc = "created"
    /\ \/ /\ ~api_key
          /\ StreamFail(NoKeyError)
          /\ UNCHANGED << model, requests, clock >>
       \/ /\ api_key
          /\ model' = ModelOrDefault(args.model)
          /\ requests' = Append(requests,
                Request(model',
                        chat_completion_stream_messages(args.message,
                                                        args.conversation_history),
                        args.temperature, args.max_tokens, TRUE))
          /\ \/ \E e \in ProviderExcs : StreamFail(e) /\ UNCHANGED clock
             \/ \E t \in Times :
                   /\ UtcNow(t)
                   /\ events' = Append(events, StartEvent(model', t))
                   /\ pc' = "at_start"
                   /\ UNCHANGED raised
    /\ UNCHANGED << api_key, args, chunks, full_response, result, validation,
                    body, http, outcome >>

\* Resume, but the generator goes back into the loop after an error event
\* (the try block inside the loop instead of around it).
Resume_after_error ==
    /\ \/ pc = "at_start" /\ full_response' = << >> /\ pc' = "loop"
       \/ pc \in { "at_content", "at_error" } /\ pc' = "loop" /\ UNCHANGED full_response
       \/ pc = "at_end" /\ pc' = "done" /\ UNCHANGED full_response
    /\ UNCHANGED << api_key, args, model, requests, chunks, events, raised,
                    clock, result, validation, body, http, outcome >>

\* next() on a suspended generator: run on from the yield.
Resume ==
    /\ \/ pc = "at_start" /\ full_response' = << >> /\ pc' = "loop"
       \/ pc = "at_content" /\ pc' = "loop" /\ UNCHANGED full_response
       \/ pc \in { "at_end", "at_error" } /\ pc' = "done" /\ UNCHANGED full_response
    /\ UNCHANGED << api_key, args, model, requests, chunks, events, raised,
                    clock, result, validation, body, http, outcome >>

\* PullChunk, but `full_response = content` instead of `+=`.
PullChunk_overwrite ==
    /\ pc = "loop"
    /\ \/ /\ Len(chunks) < MaxChunks
          /\ \E c \in ChunkContents :
                /\ chunks' = Append(chunks, c)
                /\ IF c.some
                   THEN /\ full_response' = c.val
                        /\ events' = Append(events, ContentEvent(c.val))
                        /\ pc' = "at_content"
                   ELSE UNCHANGED << full_response, events, pc >>
          /\ UNCHANGED << raised, clock >>
       \/ /\ \E t \in Times :
                /\ UtcNow(t)
                /\ events' = Append(events, EndEvent(full_response, model, t))
          /\ pc' = "at_end"
          /\ UNCHANGED << chunks, full_response, raised >>
       \/ /\ \E e \in ProviderExcs : StreamFail(e)
          /\ UNCHANGED << chunks, full_response, clock >>
    /\ UNCHANGED << api_key, args, model, requests, result, validation, body,
                    http, outcome >>

\* PullChunk, but the content event carries the text accumulated so far
\* instead of the fragment.
PullChunk_cumulative ==
    /\ pc = "loop"
    /\ \/ /\ Len(chunks) < MaxChunks
          /\ \E c \in ChunkContents :
                /\ chunks' = Append(chunks, c)
                /\ IF c.some
                   THEN /\ full_response' = full_response \o c.val
                        /\ events' = Append(events, ContentEvent(full_response'))
                        /\ pc' = "at_content"
                   ELSE UNCHANGED << full_response, events, pc >>
          /\ UNCHANGED << raised, clock >>
       \/ /\ \E t \in Times :
                /\ UtcNow(t)
                /\ events' = Append(events, EndEvent(full_response, model, t))
          /\ pc' = "at_end"
          /\ UNCHANGED << chunks, full_response, raised >>
       \/ /\ \E e \in ProviderExcs : StreamFail(e)
          /\ UNCHANGED << chunks, full_response, clock >>
    /\ UNCHANGED << api_key, args, model, requests, result, validation, body,
                    http, outcome >>

\* One turn of `for chunk in stream`: the stream delivers a chunk, ends, or
\* raises.
PullChunk ==
    /\ pc = "loop"
    /\ \/ /\ Len(chunks) < MaxChunks
          /\ \E c \in ChunkContents :
                /\ chunks' = Append(chunks, c)
                /\ IF c.some
                   THEN /\ full_response' = full_response \o c.val
                        /\ events' = Append(events, ContentEvent(c.val))
                        /\ pc' = "at_content"
                   ELSE UNCHANGED << full_response, events, pc >>
          /\ UNCHANGED << raised, clock >>
       \/ /\ \E t \in Times :
                /\ UtcNow(t)
                /\ events' = Append(events, EndEvent(full_response, model, t))
          /\ pc' = "at_end"
          /\ UNCHANGED << chunks, full_response, raised >>
       \/ /\ \E e \in ProviderExcs : StreamFail(e)
          /\ UNCHANGED << chunks, full_response, clock >>
    /\ UNCHANGED << api_key, args, model, requests, result, validation, body,
                    http, outcome >>

\* Close, but GeneratorExit is caught like an exception of the provider (a
\* bare `except:` as the last clause), which yields an error event.
Close_caught ==
    /\ pc \in { "created", "at_start", "at_content", "at_end", "at_error" }
    /\ pc' = "closed"
    /\ events' = IF pc \in { "at_start", "at_content" }
                 THEN Append(events, ErrorEvent(<< "Error generating response: " >>))
                 ELSE events
    /\ UNCHANGED << api_key, args, model, requests, chunks, full_response,
                    raised, clock, result, validation, body, http, outcome >>

\* The consumer closes the generator: GeneratorExit is raised at the yield
\* where it is suspended; no except clause catches it (it is not an
\* Exception), so the generator ends without running anything more.
Close ==
    /\ pc \in { "created", "at_start", "at_content", "at_end", "at_error" }
    /\ pc' = "closed"
    /\ UNCHANGED << api_key, args, model, requests, chunks, full_response,
                    events, raised, clock, result, validation, body, http, outcome >>

StreamStep == Begin \/ Resume \/ PullChunk \/ Close

----------------------------------------------------------------------------
\* The values the variables of the other operations have while they are
\* not in use.
NoResult == [kind |-> "none"]
NoArgs == [message |-> << >>, model |-> "", temperature |-> 0, max_tokens |-> 0,
           conversation_history |-> << >>]

Roles == { "system", "user", "assistant" }
ModelArgs == { "", "gpt-3.5-turbo", "gpt-4o-mini", "gpt-5" }

\* Temperatures are counted in tenths: 7 is 0.7.
StreamArgs ==
    [message : { << "q" >> }, model : ModelArgs, temperature : { 7 },
     max_tokens : { 150 },
     conversation_history : { << >>, << Turn("assistant", << "h" >>) >> }]

\* A call of chat_completion_stream with any arguments: the generator exists.
InitStream ==
    /\ api_key \in BOOLEAN
    /\ args \in StreamArgs
    /\ pc = "created"
    /\ model = args.model
    /\ requests = << >>
    /\ chunks = << >>
    /\ full_response = << >>
    /\ events = << >>
    /\ raised = NoExc
    /\ clock = 0
    /\ result = NoResult
    /\ validation = NoResult
    /\ body = NoResult
    /\ http = NoResult
    /\ outcome = NoResult

SpecStream == InitStream /\ [][StreamStep]_vars

----------------------------------------------------------------------------
\* chat_completion: one blocking call.

\* The except clauses of chat_completion, in their order: every exception
\* leaves the function as a ValueError.
ChatError(e) ==
    IF IsInstance(e, "AuthenticationError")
    THEN Exc("ValueError", << "Invalid OpenAI API key" >>)
    ELSE IF IsInstance(e, "RateLimitError")
    THEN Exc("ValueError", << "Rate limit exceeded. Please try again later." >>)
    ELSE IF IsInstance(e, "APIError")
    THEN Exc("ValueError", << "OpenAI API error: " >> \o e.msg)
    ELSE Exc("ValueError", << "Error generating response: " >> \o e.msg)

Raised(e) == [kind |-> "raised", exc |-> e]
Returned(v) == [kind |-> "returned", value |-> v]

\* What the provider does with one create() call: it raises, or it returns
\* a completion with message content (a text or None) and a token count.
ProviderReturn(c, n) == [kind |-> "return", content |-> c, total_tokens |-> n]
ProviderRaise(e) == [kind |-> "raise", exc |-> e]

\* The request chat_completion sends, when it gets as far as sending one.
chat_completion_request(a) ==
    Request(ModelOrDefault(a.model),
            chat_completion_messages(a.message, a.conversation_history),
            a.temperature, a.max_tokens, FALSE)

\* The exception raised inside the try block of chat_completion, or NoExc.
chat_completion_raised(key, prov) ==
    IF ~key THEN NoKeyError
    ELSE IF prov.kind = "raise" THEN prov.exc
    ELSE NoExc

\* What chat_completion returns or raises, the provider doing prov and
\* datetime.utcnow() returning t.
chat_completion(key, a, prov, t) ==
    LET e == chat_completion_raised(key, prov)
    IN  IF e # NoExc THEN Raised(ChatError(e))
        ELSE Returned([response |-> prov.content,
                       model_used |-> ModelOrDefault(a.model),
                       tokens_used |-> prov.total_tokens,
                       timestamp |-> t])

\* The completions the provider may return.
TokenCounts == { 12 }
ChatTexts == { << "o", "k" >> }
ChatProviderOutcomes ==
    { ProviderRaise(e) : e \in ProviderExcs }
      \cup { ProviderReturn(c, n) : c \in { None } \cup { Some(x) : x \in ChatTexts },
                                    n \in TokenCounts }

\* ChatCompletion, but a failed create() is tried a second time before the
\* error is raised.
ChatCompletion_retry ==
    /\ pc = "chat_call"
    /\ \E prov \in ChatProviderOutcomes, t \in Times :
          /\ IF prov.kind = "return" /\ api_key
             THEN UtcNow(t)
             ELSE t = clock /\ UNCHANGED clock
          /\ result' = chat_completion(api_key, args, prov, t)
          /\ raised' = chat_completion_raised(api_key, prov)
          /\ requests' = IF ~api_key THEN requests
                         ELSE IF prov.kind = "raise"
                         THEN requests \o << chat_completion_request(args),
                                             chat_completion_request(args) >>
                         ELSE Append(requests, chat_completion_request(args))
    /\ model' = IF api_key THEN ModelOrDefault(args.model) ELSE model
    /\ pc' = "chat_done"
    /\ UNCHANGED << api_key, args, chunks, full_response, events, validation,
                    body, http, outcome >>

\* A call of chat_completion, from entry to return or raise.
ChatCompletion ==
    /\ pc = "chat_call"
    /\ \E prov \in ChatProviderOutcomes, t \in Times :
          /\ IF prov.kind = "return" /\ api_key
             THEN UtcNow(t)
             ELSE t = clock /\ UNCHANGED clock
          /\ result' = chat_completion(api_key, args, prov, t)
          /\ raised' = chat_completion_raised(api_key, prov)
          /\ requests' = IF api_key
                         THEN Append(requests, chat_completion_request(args))
                         ELSE requests
    /\ model' = IF api_key THEN ModelOrDefault(args.model) ELSE model
    /\ pc' = "chat_done"
    /\ UNCHANGED << api_key, args, chunks, full_response, events, validation,
                    body, http, outcome >>

\* Long histories: turn i of a history has a content of i characters, so
\* that no two turns of a history are equal, and a role that varies with i.
MaxHistory == 15

RoleAt(i) == IF i % 3 = 0 THEN "user" ELSE IF i % 3 = 1 THEN "assistant" ELSE "system"

Histories ==
    { [i \in 1 .. n |-> Turn(RoleAt(i + k), [j \in 1 .. i |-> "x"])] :
        n \in 0 .. MaxHistory, k \in 0 .. 2 }

ChatArgs ==
    [message : { << "q" >> }, model : { "", "gpt-4o-mini" }, temperature : { 7 },
     max_tokens : { 150 }, conversation_history : Histories]

\* A call of chat_completion or of chat_completion_stream with a history of
\* any length up to MaxHistory.
InitChat ==
    /\ api_key \in BOOLEAN
    /\ args \in ChatArgs
    /\ pc \in { "chat_call", "created" }
    /\ model = args.model
    /\ requests = << >>
    /\ chunks = << >>
    /\ full_response = << >>
    /\ events = << >>
    /\ raised = NoExc
    /\ clock = 0
    /\ result = NoResult
    /\ validation = NoResult
    /\ body = NoResult
    /\ http = NoResult
    /\ outcome = NoResult

\* The two functions as far as the provider request: the whole of
\* chat_completion, and chat_completion_stream up to its first yield.
SpecChat == InitChat /\ [][ChatCompletion \/ Begin]_vars

\* One call of either function of the adapter, run to its end.
InitAdapter ==
    /\ api_key \in BOOLEAN
    /\ args \in StreamArgs
    /\ pc \in { "chat_call", "created" }
    /\ model = args.model
    /\ requests = << >>
    /\ chunks = << >>
    /\ full_response = << >>
    /\ events = << >>
    /\ raised = NoExc
    /\ clock = 0
    /\ result = NoResult
    /\ validation = NoResult
    /\ body = NoResult
    /\ http = NoResult
    /\ outcome = NoResult

SpecAdapter == InitAdapter /\ [][ChatCompletion \/ StreamStep]_vars

----------------------------------------------------------------------------
\* validate_parameters.  Temperatures are counted in tenths (20 is 2.0).

TemperatureMin == 0
TemperatureMax == 20
MaxTokensMin == 1
MaxTokensMax == 4000

\* validate_model
validate_model(m) ==
    \E i \in 1 .. Len(available_models) : available_models[i].id = m

\* validate_parameters, but the three checks chained with elif.
validate_parameters_first_only(m, temperature, max_tokens) ==
    LET errors ==
          IF ~validate_model(m) THEN << << "Invalid model: ", m >> >>
          ELSE IF ~(TemperatureMin <= temperature /\ temperature <= TemperatureMax)
          THEN << << "Temperature must be between 0.0 and 2.0" >> >>
          ELSE IF ~(MaxTokensMin <= max_tokens /\ max_tokens <= MaxTokensMax)
          THEN << << "Max tokens must be between 1 and 4000" >> >>
          ELSE << >>
    IN  [valid |-> Len(errors) = 0, errors |-> errors]

validate_parameters(m, temperature, max_tokens) ==
    LET e1 == IF ~validate_model(m)
              THEN << << "Invalid model: ", m >> >> ELSE << >>
        e2 == IF ~(TemperatureMin <= temperature /\ temperature <= TemperatureMax)
              THEN Append(e1, << "Temperature must be between 0.0 and 2.0" >>)
              ELSE e1
        e3 == IF ~(MaxTokensMin <= max_tokens /\ max_tokens <= MaxTokensMax)
              THEN Append(e2, << "Max tokens must be between 1 and 4000" >>)
              ELSE e2
    IN  [valid |-> Len(e3) = 0, errors |-> e3]

\* A call of validate_parameters.
ValidateParameters ==
    /\ pc = "validate_call"
    /\ validation' = validate_parameters(args.model, args.temperature, args.max_tokens)
    /\ pc' = "validate_done"
    /\ UNCHANGED << api_key, args, model, requests, chunks, full_response,
                    events, raised, clock, result, body, http, outcome >>

\* How far beyond the two ranges the arguments of the model go.
Margin == 2

TemperatureArgs == (TemperatureMin - Margin) .. (TemperatureMax + Margin + 3)
MaxTokensArgs ==
    ((MaxTokensMin - Margin) .. (MaxTokensMin + Margin))
      \cup { 150 }
      \cup ((MaxTokensMax - Margin) .. (MaxTokensMax + Margin))

ValidateArgs ==
    [message : { << >> }, model : ModelArgs, temperature : TemperatureArgs,
     max_tokens : MaxTokensArgs, conversation_history : { << >> }]

InitValidate ==
    /\ api_key \in BOOLEAN
    /\ args \in ValidateArgs
    /\ pc = "validate_call"
    /\ model = args.model
    /\ requests = << >>
    /\ chunks = << >>
    /\ full_response = << >>
    /\ events = << >>
    /\ raised = NoExc
    /\ clock = 0
    /\ result = NoResult
    /\ validation = NoResult
    /\ body = NoResult
    /\ http = NoResult
    /\ outcome = NoResult

SpecValidate == InitValidate /\ [][ValidateParameters]_vars

----------------------------------------------------------------------------
\* The request schema (models.py) and the two chat routes (routes.py).

NoText == [some |-> FALSE, val |-> ""]
NoInt == [some |-> FALSE, val |-> 0]

\* The Field constraints and defaults of ChatRequest; temperatures in tenths.
FieldTemperatureMin == 0
FieldTemperatureMax == 20
FieldMaxTokensMin == 1
FieldMaxTokensMax == 4000
FieldMessageMinLength == 1
DefaultTemperature == 7
DefaultMaxTokens == 150
DefaultRequestModel == "gpt-4o-mini"

\* Whether the body passes the validation of ChatRequest.  When it does
\* not, the framework answers 422 and the handler does not run; when the
\* handler returns, it answers 200.
ChatRequestValid(b) ==
    /\ Len(b.message) >= FieldMessageMinLength
    /\ b.temperature.some =>
          (FieldTemperatureMin <= b.temperature.val
             /\ b.temperature.val <= FieldTemperatureMax)
    /\ b.max_tokens.some =>
          (FieldMaxTokensMin <= b.max_tokens.val
             /\ b.max_tokens.val <= FieldMaxTokensMax)

\* The ChatRequest built from a valid body, defaults filled in.
ChatRequest(b) ==
    [message |-> b.message,
     model |-> IF b.model.some THEN b.model.val ELSE DefaultRequestModel,
     temperature |-> IF b.temperature.some THEN b.temperature.val
                     ELSE DefaultTemperature,
     max_tokens |-> IF b.max_tokens.some THEN b.max_tokens.val
                    ELSE DefaultMaxTokens]

HTTPException(code, detail) ==
    [cls |-> "HTTPException", msg |-> detail, status_code |-> code]

Response(code, content) == [kind |-> "response", status |-> code, content |-> content]

RECURSIVE JoinTexts(_, _)
\* sep.join(ts) for texts ts.
JoinTexts(ts, sep) ==
    IF ts = << >> THEN << >>
    ELSE IF Len(ts) = 1 THEN ts[1]
    ELSE ts[1] \o sep \o JoinTexts(Tail(ts), sep)

\* raise HTTPException(status_code=400, detail="Invalid parameters: ...")
InvalidParametersError(v) ==
    HTTPException(400, << "Invalid parameters: " >> \o JoinTexts(v.errors, << ", " >>))

\* `if not validation["valid"]`, but never true.
InvalidParameters_ignored(v) == FALSE

\* `if not validation["valid"]`
InvalidParameters(v) == ~v.valid

\* The except clauses of the /chat handler, in their order: the exception
\* the handler raises for an exception e raised in its try block.
chat_route_except(e) ==
    IF IsInstance(e, "ValueError")
    THEN HTTPException(400, e.msg)
    ELSE HTTPException(500, << "Error generating response: " >> \o e.msg)

\* The except clauses of the /chat/stream handler.
chat_stream_route_except(e) ==
    IF IsInstance(e, "ValueError")
    THEN HTTPException(400, e.msg)
    ELSE HTTPException(500, << "Error generating streaming response: " >> \o e.msg)

\* The answer the framework sends for an HTTPException leaving a handler.
ErrorResponse(e) == Response(e.status_code, e.msg)

\* ChatResponse(response=..., ...): response must be a str.
ChatResponseError ==
    Exc("ValidationError", << "response: none is not an allowed value" >>)

\* The arguments the two handlers pass to the service: no history.
ServiceArgs(req) ==
    [message |-> req.message, model |-> req.model, temperature |-> req.temperature,
     max_tokens |-> req.max_tokens, conversation_history |-> << >>]

\* POST /chat, from the request to the answer.
PostChat ==
    /\ pc = "chat_request"
    /\ pc' = "responded"
    /\ IF ~ChatRequestValid(body)
       THEN /\ http' = Response(422, << "validation error" >>)
            /\ UNCHANGED << args, model, requests, raised, clock, result, validation >>
       ELSE LET req == ChatRequest(body)
                v == validate_parameters(req.model, req.temperature, req.max_tokens)
            IN  /\ validation' = v
                /\ IF InvalidParameters(v)
                   THEN /\ http' = ErrorResponse(chat_route_except(InvalidParametersError(v)))
                        /\ UNCHANGED << args, model, requests, raised, clock, result >>
                   ELSE /\ args' = ServiceArgs(req)
                        /\ model' = IF api_key THEN ModelOrDefault(req.model) ELSE model
                        /\ requests' = IF api_key
                                       THEN Append(requests, chat_completion_request(args'))
                                       ELSE requests
                        /\ \E prov \in ChatProviderOutcomes, t \in Times :
                              /\ IF prov.kind = "return" /\ api_key
                                 THEN UtcNow(t)
                                 ELSE t = clock /\ UNCHANGED clock
                              /\ result' = chat_completion(api_key, args', prov, t)
                              /\ raised' = chat_completion_raised(api_key, prov)
                        /\ http' =
                             IF result'.kind = "raised"
                             THEN ErrorResponse(chat_route_except(result'.exc))
                             ELSE IF ~result'.value.response.some
                             THEN ErrorResponse(chat_route_except(ChatResponseError))
                             ELSE Response(200, result'.value)
    /\ UNCHANGED << api_key, chunks, full_response, events, body, outcome >>

\* POST /chat/stream, from the request to the StreamingResponse; the
\* generator it wraps is then driven by the framework (StreamStep).
PostChatStream ==
    /\ pc = "stream_request"
    /\ IF ~ChatRequestValid(body)
       THEN /\ http' = Response(422, << "validation error" >>)
            /\ pc' = "responded"
            /\ UNCHANGED << args, model, validation >>
       ELSE LET req == ChatRequest(body)
                v == validate_parameters(req.model, req.temperature, req.max_tokens)
            IN  /\ validation' = v
                /\ IF InvalidParameters(v)
                   THEN /\ http' = ErrorResponse(
                                      chat_stream_route_except(InvalidParametersError(v)))
                        /\ pc' = "responded"
                        /\ UNCHANGED << args, model >>
                   ELSE /\ args' = ServiceArgs(req)
                        /\ model' = req.model
                        /\ http' = Response(200, << "stream" >>)
                        /\ pc' = "created"
    /\ UNCHANGED << api_key, requests, chunks, full_response, events, raised,
                    clock, result, body, outcome >>

Bodies ==
    [message : { << >>, << "q" >> },
     model : { NoText, [some |-> TRUE, val |-> "gpt-3.5-turbo"],
               [some |-> TRUE, val |-> "gpt-5"], [some |-> TRUE, val |-> ""] },
     temperature : { NoInt, [some |-> TRUE, val |-> FieldTemperatureMax],
                     [some |-> TRUE, val |-> FieldTemperatureMax + 5] },
     max_tokens : { NoInt, [some |-> TRUE, val |-> FieldMaxTokensMin],
                    [some |-> TRUE, val |-> FieldMaxTokensMin - 1] }]

\* One HTTP request to one of the two chat routes.
InitRoutes ==
    /\ api_key \in BOOLEAN
    /\ body \in Bodies
    /\ pc \in { "chat_request", "stream_request" }
    /\ args = NoArgs
    /\ model = ""
    /\ requests = << >>
    /\ chunks = << >>
    /\ full_response = << >>
    /\ events = << >>
    /\ raised = NoExc
    /\ clock = 0
    /\ result = NoResult
    /\ validation = NoResult
    /\ http = NoResult
    /\ outcome = NoResult

SpecRoutes == InitRoutes /\ [][PostChat \/ PostChatStream \/ StreamStep]_vars

----------------------------------------------------------------------------
\* json.loads on the provider text.  A text is a sequence of tokens: the
\* punctuation of JSON, three string literals, the number 1, null, two
\* tokens R1 and R2 that each stand for the text of one recipe object, and
\* a word that is no JSON.

StringTokens == { "\"recipes\"", "\"other\"", "\"my recipes\"" }
RecipeTokens == { "R1", "R2" }

\* A parsed value: t is its Python type, items the elements of a list or
\* the members of a dict, s the token of a string or of a recipe object.
Val(t, items, s) == [t |-> t, items |-> items, s |-> s]
NullVal == Val("NoneType", << >>, "")
Member(k, v) == [key |-> k, value |-> v]

ParseFail == [ok |-> FALSE, val |-> NullVal, next |-> 0]
ParseOk(v, n) == [ok |-> TRUE, val |-> v, next |-> n]

\* d[k] = v on the members of a dict: a repeated key keeps its place and
\* takes the last value.
DictSet(members, k, v) ==
    IF \E i \in 1 .. Len(members) : members[i].key = k
    THEN [i \in 1 .. Len(members) |->
             IF members[i].key = k THEN Member(k, v) ELSE members[i]]
    ELSE Append(members, Member(k, v))

RECURSIVE ParseValue(_, _), ParseItems(_, _, _, _), ParseMembers(_, _, _, _)

\* The JSON value that starts at token i of tx.
ParseValue(tx, i) ==
    IF i > Len(tx) THEN ParseFail
    ELSE IF tx[i] = "{" THEN ParseMembers(tx, i + 1, << >>, TRUE)
    ELSE IF tx[i] = "[" THEN ParseItems(tx, i + 1, << >>, TRUE)
    ELSE IF tx[i] \in StringTokens THEN ParseOk(Val("str", << >>, tx[i]), i + 1)
    ELSE IF tx[i] \in RecipeTokens THEN ParseOk(Val("dict", << >>, tx[i]), i + 1)
    ELSE IF tx[i] = "1" THEN ParseOk(Val("int", << >>, "1"), i + 1)
    ELSE IF tx[i] = "null" THEN ParseOk(NullVal, i + 1)
    ELSE ParseFail

\* The rest of an array from token i on, acc being its elements so far.
ParseItems(tx, i, acc, first) ==
    IF i > Len(tx) THEN ParseFail
    ELSE IF first /\ tx[i] = "]" THEN ParseOk(Val("list", acc, ""), i + 1)
    ELSE LET r == ParseValue(tx, i)
         IN  IF ~r.ok \/ r.next > Len(tx) THEN ParseFail
             ELSE IF tx[r.next] = ","
                  THEN ParseItems(tx, r.next + 1, Append(acc, r.val), FALSE)
             ELSE IF tx[r.next] = "]"
                  THEN ParseOk(Val("list", Append(acc, r.val), ""), r.next + 1)
             ELSE ParseFail

\* The rest of an object from token i on, acc being its members so far.
ParseMembers(tx, i, acc, first) ==
    IF i > Len(tx) THEN ParseFail
    ELSE IF first /\ tx[i] = "}" THEN ParseOk(Val("dict", acc, ""), i + 1)
    ELSE IF tx[i] \notin StringTokens \/ i + 1 > Len(tx) THEN ParseFail
    ELSE IF tx[i + 1] # ":" THEN ParseFail
    ELSE LET r == ParseValue(tx, i + 2)
         IN  IF ~r.ok \/ r.next > Len(tx) THEN ParseFail
             ELSE IF tx[r.next] = ","
                  THEN ParseMembers(tx, r.next + 1, DictSet(acc, tx[i], r.val), FALSE)
             ELSE IF tx[r.next] = "}"
                  THEN ParseOk(Val("dict", DictSet(acc, tx[i], r.val), ""), r.next + 1)
             ELSE ParseFail

\* json.loads(text): the value, or not ok for a JSONDecodeError (no value,
\* or text left over after the value).
json_loads(tx) ==
    LET r == ParseValue(tx, 1)
    IN  IF r.ok /\ r.next = Len(tx) + 1 THEN r ELSE ParseFail

\* `"recipes" in recipes_data`: a key of a dict, an element of a list, a
\* substring of a str; a TypeError for a number or None.
InRaisesTypeError(v) == v.t \in { "int", "NoneType" }
RecipesIn(v) ==
    CASE v.t = "dict" ->
           \E i \in 1 .. Len(v.items) : v.items[i].key = "\"recipes\""
      [] v.t = "list" ->
           \E i \in 1 .. Len(v.items) :
               v.items[i].t = "str" /\ v.items[i].s = "\"recipes\""
      [] v.t = "str" -> v.s \in { "\"recipes\"", "\"my recipes\"" }
      [] OTHER -> FALSE

\* recipes_data["recipes"] of a dict that has the key.
RecipesOf(v) ==
    LET i == CHOOSE i \in 1 .. Len(v.items) : v.items[i].key = "\"recipes\""
    IN  v.items[i].value

----------------------------------------------------------------------------
\* generate_recipes.

NoList == [some |-> FALSE, val |-> << >>]

\* The fixed arguments of the completion; the temperature in tenths.
RecipeTemperature == 3
RecipeMaxTokens == 2000
RecipeDefaultModel == "gpt-4o-mini"

\* Truthiness of an optional list or text, and of an optional int.
TruthySeq(o) == o.some /\ o.val # << >>
TruthyInt(o) == o.some /\ o.val # 0

\* The parameter default `units: str = "metric"`: the value units is bound
\* to when the caller does not pass it.
UnitsOrDefault(u) == IF u.some THEN u.val ELSE << "metric" >>

\* query_parts
QueryParts(a) ==
    << << "Ingredients: " >> \o JoinTexts(a.ingredients, << ", " >>) >>
      \o (IF TruthySeq(a.dietary_preferences)
          THEN << << "Dietary preferences: " >>
                    \o JoinTexts(a.dietary_preferences.val, << ", " >>) >>
          ELSE << >>)
      \o (IF TruthySeq(a.allergens)
          THEN << << "Allergens to avoid: " >>
                    \o JoinTexts(a.allergens.val, << ", " >>) >>
          ELSE << >>)
      \o (IF TruthySeq(a.excluded_ingredients)
          THEN << << "Excluded ingredients: " >>
                    \o JoinTexts(a.excluded_ingredients.val, << ", " >>) >>
          ELSE << >>)
      \o (IF TruthySeq(a.cuisine)
          THEN << << "Cuisine preference: " >> \o a.cuisine.val >>
          ELSE << >>)
      \o (IF TruthyInt(a.time_limit)
          THEN << << "Time limit: ", ToString(a.time_limit.val), " minutes" >> >>
          ELSE << >>)
      \o (IF TruthyInt(a.servings)
          THEN << << "Servings: ", ToString(a.servings.val) >> >>
          ELSE << >>)
      \o << << "Units: " >> \o UnitsOrDefault(a.units) >>

\* user_query
UserQuery(a) == JoinTexts(QueryParts(a), << "\n" >>)

\* RecipeChatArgs, but the model is passed on as given, so that an
\* unspecified model becomes the default of chat_completion.
RecipeChatArgs_model_as_given(a) ==
    [message |-> UserQuery(a),
     model |-> a.model,
     temperature |-> RecipeTemperature,
     max_tokens |-> RecipeMaxTokens,
     conversation_history |-> << Turn("system", CULINARY_ASSISTANT_PROMPT) >>]

\* The arguments generate_recipes passes to chat_completion.
RecipeChatArgs(a) ==
    [message |-> UserQuery(a),
     model |-> IF a.model = "" THEN RecipeDefaultModel ELSE a.model,
     temperature |-> RecipeTemperature,
     max_tokens |-> RecipeMaxTokens,
     conversation_history |-> << Turn("system", CULINARY_ASSISTANT_PROMPT) >>]

\* The echo of the inputs in a successful outcome.
QueryParameters(a) ==
    [ingredients |-> a.ingredients,
     dietary_preferences |-> a.dietary_preferences,
     allergens |-> a.allergens,
     excluded_ingredients |-> a.excluded_ingredients,
     cuisine |-> a.cuisine,
     time_limit |-> a.time_limit,
     servings |-> a.servings,
     units |-> UnitsOrDefault(a.units)]

\* The return of the outer except clause: str(e) and a new timestamp.
RecipeFailure(msg, t) == [success |-> FALSE, error |-> msg, timestamp |-> t]

\* `len(recipes) < 2 or len(recipes) > 3`, but with 1 as the lower limit.
BadRecipeCount_from_one(n) == n < 1 \/ n > 3

\* `len(recipes_data["recipes"]) < 2 or len(recipes_data["recipes"]) > 3`
BadRecipeCount(n) == n < 2 \/ n > 3

\* What generate_recipes returns for the completion resp (a dict with
\* response, model_used, tokens_used, timestamp), t being the time of the
\* outer except clause.
RecipeOutcome(a, resp, t) ==
    IF ~resp.response.some
    THEN RecipeFailure(<< "the JSON object must be str, bytes or bytearray, not NoneType" >>, t)
    ELSE LET p == json_loads(resp.response.val)
         IN  IF ~p.ok
             THEN [success |-> FALSE,
                   error |-> << "Invalid JSON response from AI model" >>,
                   raw_response |-> resp.response.val,
                   model_used |-> resp.model_used,
                   tokens_used |-> resp.tokens_used,
                   timestamp |-> resp.timestamp]
             ELSE IF InRaisesTypeError(p.val)
             THEN RecipeFailure(<< "argument of type '", p.val.t, "' is not iterable" >>, t)
             ELSE IF ~RecipesIn(p.val)
             THEN RecipeFailure(<< "Response missing 'recipes' key" >>, t)
             ELSE IF p.val.t # "dict"
             THEN RecipeFailure(<< p.val.t, " indices must be integers" >>, t)
             ELSE IF RecipesOf(p.val).t # "list"
             THEN RecipeFailure(<< "'recipes' must be an array" >>, t)
             ELSE IF BadRecipeCount(Len(RecipesOf(p.val).items))
             THEN RecipeFailure(<< "Must have 2-3 recipes" >>, t)
             ELSE [success |-> TRUE,
                   recipes |-> RecipesOf(p.val).items,
                   model_used |-> resp.model_used,
                   tokens_used |-> resp.tokens_used,
                   timestamp |-> resp.timestamp,
                   query_parameters |-> QueryParameters(a)]

\* The texts the provider may answer a recipe query with.
MaxRecipes == 4

RECURSIVE CommaList(_)
\* The tokens of the elements ts separated by commas.
CommaList(ts) ==
    IF ts = << >> THEN << >>
    ELSE IF Len(ts) = 1 THEN << ts[1] >>
    ELSE << ts[1], "," >> \o CommaList(Tail(ts))

RecipeLists == { [i \in 1 .. n |-> IF (i + k) % 2 = 0 THEN "R1" ELSE "R2"] :
                   n \in 0 .. MaxRecipes, k \in 0 .. 1 }
ArrayText(ts) == << "[" >> \o CommaList(ts) \o << "]" >>
ObjectText(k, valueText) == << "{", k, ":" >> \o valueText \o << "}" >>

ProviderTexts ==
    { ObjectText("\"recipes\"", ArrayText(l)) : l \in RecipeLists }
      \cup { ObjectText("\"other\"", ArrayText(l)) : l \in { << "R1", "R2" >> } }
      \cup { ArrayText(l) : l \in { << "R1", "R2" >>, << "\"recipes\"", "R1" >> } }
      \cup { ObjectText("\"recipes\"", << "R1" >>),
             ObjectText("\"recipes\"", << "1" >>),
             ObjectText("\"recipes\"", << "\"other\"" >>),
             << "{", "\"recipes\"", ":", "[", "R1", "]", ",",
                "\"recipes\"", ":", "[", "R1", ",", "R2", "]", "}" >>,
             << "{", "\"other\"", ":", "1", ",",
                "\"recipes\"", ":", "[", "R2", ",", "R1", ",", "R1", "]", "}" >>,
             << "R1" >>, << "\"my recipes\"" >>, << "\"other\"" >>,
             << "1" >>, << "null" >>,
             << >>, << "oops" >>,
             << "oops", "{", "\"recipes\"", ":", "[", "R1", ",", "R2", "]", "}" >>,
             << "{", "\"recipes\"", ":", "[", "R1", ",", "R2", "]", "}", "oops" >>,
             << "{", "\"recipes\"", ":", "[", "R1", ",", "R2", "]" >>,
             << "{", "\"recipes\"", ":", "[", "R1", ",", "R2", ",", "]", "}" >> }

RecipeProviderOutcomes ==
    { ProviderRaise(e) : e \in ProviderExcs }
      \cup { ProviderReturn(c, n) :
               c \in { None } \cup { Some(x) : x \in ProviderTexts },
               n \in TokenCounts }

\* A call of generate_recipes, from entry to return.
GenerateRecipes ==
    /\ pc = "recipes_call"
    /\ \E prov \in RecipeProviderOutcomes, t1 \in Times, t2 \in Times :
          LET ca == RecipeChatArgs(args)
              r == chat_completion(api_key, ca, prov, t1)
          IN  /\ t1 >= clock /\ t2 >= t1
              /\ IF r.kind = "returned" THEN TRUE ELSE t1 = clock
              /\ result' = r
              /\ raised' = chat_completion_raised(api_key, prov)
              /\ requests' = IF api_key
                             THEN Append(requests, chat_completion_request(ca))
                             ELSE requests
              /\ model' = ca.model
              /\ outcome' = IF r.kind = "raised"
                            THEN RecipeFailure(r.exc.msg, t2)
                            ELSE RecipeOutcome(args, r.value, t2)
              /\ clock' = IF "raw_response" \in DOMAIN outcome' \/ outcome'.success
                          THEN t1 ELSE t2
    /\ pc' = "recipes_done"
    /\ UNCHANGED << api_key, args, chunks, full_response, events, validation,
                    body, http >>

RecipeArgs ==
    [ingredients : { << >>, << << "egg" >>, << "flour" >> >> },
     dietary_preferences : { NoList, [some |-> TRUE, val |-> << >>],
                             [some |-> TRUE, val |-> << << "vegan" >> >>] },
     allergens : { NoList, [some |-> TRUE, val |-> << << "nuts" >>, << "soy" >> >>] },
     excluded_ingredients : { NoList, [some |-> TRUE, val |-> << << "pork" >> >>] },
     cuisine : { NoList, [some |-> TRUE, val |-> << "thai" >>] },
     time_limit : { NoInt, [some |-> TRUE, val |-> 0], [some |-> TRUE, val |-> 30] },
     servings : { NoInt, [some |-> TRUE, val |-> 2] },
     units : { NoList, [some |-> TRUE, val |-> << "metric" >>],
               [some |-> TRUE, val |-> << "US" >>] },
     model : { "", "gpt-3.5-turbo" }]

\* A call of generate_recipes with any arguments.
InitRecipes ==
    /\ api_key \in BOOLEAN
    /\ args \in RecipeArgs
    /\ pc = "recipes_call"
    /\ model = args.model
    /\ requests = << >>
    /\ chunks = << >>
    /\ full_response = << >>
    /\ events = << >>
    /\ raised = NoExc
    /\ clock = 0
    /\ result = NoResult
    /\ validation = NoResult
    /\ body = NoResult
    /\ http = NoResult
    /\ outcome = NoResult

SpecRecipes == InitRecipes /\ [][GenerateRecipes]_vars

----------------------------------------------------------------------------
\* Several calls of generate_recipes, one after the other, on the one
\* LLMService the process holds.

\* The provider receives at most this many requests.
MaxRecipeCalls == 2

RecipeCallArgs ==
    [ingredients : { << << "egg" >> >>, << << "egg" >>, << "flour" >> >> },
     dietary_preferences : { NoList },
     allergens : { NoList },
     excluded_ingredients : { NoList },
     cuisine : { NoList },
     time_limit : { NoInt, [some |-> TRUE, val |-> 30] },
     servings : { NoInt },
     units : { NoList },
     model : { "", "gpt-3.5-turbo" }]

\* The caller calls generate_recipes again: the locals of the call are new,
\* the service object and the provider are the same.
NextRecipeCall ==
    /\ pc = "recipes_done"
    /\ Len(requests) < MaxRecipeCalls
    /\ args' \in RecipeCallArgs
    /\ pc' = "recipes_call"
    /\ model' = args'.model
    /\ raised' = NoExc
    /\ result' = NoResult
    /\ outcome' = NoResult
    /\ UNCHANGED << api_key, requests, chunks, full_response, events, clock,
                    validation, body, http >>

InitRecipeCalls ==
    /\ api_key \in BOOLEAN
    /\ args \in RecipeCallArgs
    /\ pc = "recipes_call"
    /\ model = args.model
    /\ requests = << >>
    /\ chunks = << >>
    /\ full_response = << >>
    /\ events = << >>
    /\ raised = NoExc
    /\ clock = 0
    /\ result = NoResult
    /\ validation = NoResult
    /\ body = NoResult
    /\ http = NoResult
    /\ outcome = NoResult

SpecRecipeCalls == InitRecipeCalls /\ [][GenerateRecipes \/ NextRecipeCall]_vars

----------------------------------------------------------------------------
\* Properties of the event sequence of chat_completion_stream.

RECURSIVE SelectType(_, _)
\* The events of type ty among evs, in order.
SelectType(evs, ty) ==
    IF evs = << >> THEN << >>
    ELSE IF Head(evs).type = ty
         THEN << Head(evs) >> \o SelectType(Tail(evs), ty)
         ELSE SelectType(Tail(evs), ty)

RECURSIVE ConcatContent(_)
\* The concatenation of the fragments of the content events among evs.
ConcatContent(evs) ==
    IF evs = << >> THEN << >>
    ELSE IF Head(evs).type = "content"
         THEN Head(evs).content \o ConcatContent(Tail(evs))
         ELSE ConcatContent(Tail(evs))

RECURSIVE NonEmptyTexts(_)
\* The non-empty texts among a sequence of texts, in order.
NonEmptyTexts(ts) ==
    IF ts = << >> THEN << >>
    ELSE IF Head(ts) # << >>
         THEN << Head(ts) >> \o NonEmptyTexts(Tail(ts))
         ELSE NonEmptyTexts(Tail(ts))

RECURSIVE YieldedFragments(_)
\* The fragments of the chunks whose content is not None, in order.
YieldedFragments(cs) ==
    IF cs = << >> THEN << >>
    ELSE IF Head(cs).some
         THEN << Head(cs).val >> \o YieldedFragments(Tail(cs))
         ELSE YieldedFragments(Tail(cs))

EmittedFragments ==
    LET ce == SelectType(events, "content")
    IN  [i \in 1 .. Len(ce) |-> ce[i].content]

Terminals == { i \in 1 .. Len(events) : events[i].type \in { "end", "error" } }

\* C1: a stream that ran to completion starts with a start event, has
\* exactly one start event, and every content event comes after it.
C1_StartFirst ==
    pc = "done" =>
        /\ Len(events) >= 1
        /\ events[1].type = "start"
        /\ Len(SelectType(events, "start")) = 1
        /\ \A i \in 1 .. Len(events) :
              events[i].type = "content" =>
                 \E j \in 1 .. (i - 1) : events[j].type = "start"

\* C2: at most one terminal event (end or error) is ever emitted and nothing
\* is emitted after it; a completed stream has exactly one; when an
\* exception was raised, before the stream opened or between two fragments,
\* the terminal event is an error event, otherwise it is an end event.
C2_OneTerminal ==
    /\ Cardinality(Terminals) <= 1
    /\ \A i \in Terminals : i = Len(events)
    /\ pc = "done" => Cardinality(Terminals) = 1
    /\ raised # NoExc =>
          /\ Len(SelectType(events, "error")) = 1
          /\ Len(SelectType(events, "end")) = 0
    /\ (pc = "done" /\ raised = NoExc) =>
          /\ Len(SelectType(events, "end")) = 1
          /\ Len(SelectType(events, "error")) = 0

\* A stream that failed between two fragments and ran to completion.
C2_Witness ==
    /\ pc = "done"
    /\ raised # NoExc
    /\ Len(SelectType(events, "content")) >= 1
    /\ events[Len(events)].type = "error"

\* C3: the full_response of an end event is the concatenation, in emission
\* order, of the fragments of the content events emitted before it.
C3_FullResponse ==
    \A i \in 1 .. Len(events) :
        events[i].type = "end" =>
            events[i].full_response = ConcatContent(SubSeq(events, 1, i - 1))

\* An end event after two content events with non-empty fragments.
C3_Witness ==
    /\ Len(events) >= 1
    /\ events[Len(events)].type = "end"
    /\ Len(NonEmptyTexts(EmittedFragments)) >= 2

\* C4: the non-empty fragments of the content events are the non-empty
\* fragments the provider delivered, one event per fragment and in the
\* provider's order, and no content event stems from a chunk whose content
\* is None.
C4_FragmentsRelayed ==
    /\ NonEmptyTexts(EmittedFragments) = NonEmptyTexts(YieldedFragments(chunks))
    /\ Len(EmittedFragments) <= Len(YieldedFragments(chunks))

\* A completed stream whose provider delivered a None chunk and two
\* different non-empty fragments.
C4_Witness ==
    /\ pc = "done"
    /\ \E i \in 1 .. Len(chunks) : ~chunks[i].some
    /\ \E i, j \in 1 .. Len(chunks) :
          /\ i < j
          /\ chunks[i].some /\ chunks[j].some
          /\ chunks[i].val # << >> /\ chunks[j].val # << >>
          /\ chunks[i].val # chunks[j].val

----------------------------------------------------------------------------
\* Properties of the composed request and of the validator.

Min(a, b) == IF a < b THEN a ELSE b

\* C5: the request chat_completion or chat_completion_stream sends for a
\* history of n turns is the system prompt, then the last min(n,10) turns
\* of the history in their order with role and content unchanged, then the
\* user message.
C5_RequestComposed ==
    \A r \in 1 .. Len(requests) :
        LET msgs == requests[r].messages
            h == args.conversation_history
            n == Len(h)
            k == Min(n, 10)
        IN  /\ Len(msgs) = k + 2
            /\ msgs[1] = [role |-> "system", content |-> CULINARY_ASSISTANT_PROMPT]
            /\ \A i \in 1 .. k : msgs[1 + i] = h[n - k + i]
            /\ msgs[k + 2] = [role |-> "user", content |-> args.message]

\* A request was sent for a history of 15 turns.
C5_Witness ==
    /\ Len(requests) = 1
    /\ Len(args.conversation_history) = 15
    /\ Len(requests[1].messages) = 12

\* C6: validate_parameters reports one error per violated condition and no
\* other (model not in the catalog, temperature outside [0.0, 2.0],
\* max_tokens outside [1, 4000]) and valid exactly when there is no error.
C6_Validation ==
    pc = "validate_done" =>
        LET mBad == args.model \notin { "gpt-3.5-turbo", "gpt-4o-mini" }
            tBad == args.temperature < 0 \/ args.temperature > 20
            kBad == args.max_tokens < 1 \/ args.max_tokens > 4000
            errs == validation.errors
            Has(msg) == \E i \in 1 .. Len(errs) : errs[i] = msg
            N(b) == IF b THEN 1 ELSE 0
        IN  /\ Len(errs) = N(mBad) + N(tBad) + N(kBad)
            /\ mBad <=> Has(<< "Invalid model: ", args.model >>)
            /\ tBad <=> Has(<< "Temperature must be between 0.0 and 2.0" >>)
            /\ kBad <=> Has(<< "Max tokens must be between 1 and 4000" >>)
            /\ validation.valid <=> (errs = << >>)
            /\ (~mBad /\ ~tBad /\ ~kBad) => validation = [valid |-> TRUE, errors |-> << >>]
            /\ args.temperature = 25 => (~validation.valid /\ tBad)

\* Temperature 2.5 with an unknown model and a max_tokens out of range:
\* three errors.
C6_Witness ==
    /\ pc = "validate_done"
    /\ args.temperature = 25
    /\ args.model = "gpt-5"
    /\ args.max_tokens = 4001
    /\ Len(validation.errors) = 3

----------------------------------------------------------------------------
\* Properties of the two chat routes.

ValidationFailed == validation # NoResult /\ ~validation.valid

\* C7: when validate_parameters reports the parameters invalid, the handler
\* answers with status 400.
C7_InvalidIs400 ==
    (pc = "responded" /\ ValidationFailed) => http.status = 400

\* C8: when a failure that is not a provider-reported authentication,
\* rate-limit or API error occurs inside chat_completion, POST /chat answers
\* with status 500.
C8_UnexpectedIs500 ==
    (pc = "responded" /\ raised # NoExc /\ ~IsInstance(raised, "APIError"))
        => http.status = 500

\* C9: when validate_parameters reports the parameters invalid, the handler
\* has answered, no request has been sent to the provider and no generator
\* has been created.
C9_InvalidNeverReachesProvider ==
    ValidationFailed =>
        /\ requests = << >>
        /\ pc = "responded"
        /\ result = NoResult
        /\ events = << >>

\* A request with an unknown model was answered, the key being configured.
C9_Witness ==
    /\ pc = "responded"
    /\ api_key
    /\ ValidationFailed
    /\ http.kind = "response"

----------------------------------------------------------------------------
\* Properties of generate_recipes.

\* The text the provider returned to the completion, when it returned one.
ProviderText == result.value.response.val
GotText == result.kind = "returned" /\ result.value.response.some

\* The text parses as JSON, to an object with a recipes key whose value is
\* an array of 2 or 3 elements.
WellFormedRecipes ==
    /\ GotText
    /\ json_loads(ProviderText).ok
    /\ LET d == json_loads(ProviderText).val
       IN  /\ d.t = "dict"
           /\ \E i \in 1 .. Len(d.items) :
                 /\ d.items[i].key = "\"recipes\""
                 /\ d.items[i].value.t = "list"
                 /\ Len(d.items[i].value.items) \in { 2, 3 }

R(tok) == [t |-> "dict", items |-> << >>, s |-> tok]

\* C10: generate_recipes returns success:true exactly when the provider
\* text parses as JSON with a recipes key holding a sequence of 2 or 3
\* entries, and then returns that sequence; otherwise success:false with an
\* error message; for a text that is no JSON the error is "Invalid JSON
\* response from AI model" and the outcome carries the text as raw_response
\* and the model, token count and timestamp of the completion.
C10_RecipeOutcome ==
    pc = "recipes_done" =>
        /\ outcome.success <=> WellFormedRecipes
        /\ WellFormedRecipes =>
              LET d == json_loads(ProviderText).val
              IN  \E i \in 1 .. Len(d.items) :
                     /\ d.items[i].key = "\"recipes\""
                     /\ outcome.recipes = d.items[i].value.items
        /\ ~WellFormedRecipes =>
              /\ "error" \in DOMAIN outcome
              /\ outcome.error # << >>
        /\ (GotText /\ ~json_loads(ProviderText).ok) =>
              /\ "raw_response" \in DOMAIN outcome
              /\ outcome.error = << "Invalid JSON response from AI model" >>
              /\ outcome.raw_response = ProviderText
              /\ outcome.model_used = result.value.model_used
              /\ outcome.tokens_used = result.value.tokens_used
              /\ outcome.timestamp = result.value.timestamp
        /\ (GotText /\ ProviderText
                = << "{", "\"recipes\"", ":", "[", "R1", ",", "R2", "]", "}" >>) =>
              /\ outcome.success
              /\ outcome.recipes = << R("R1"), R("R2") >>
        /\ (GotText /\ ProviderText
                = << "{", "\"recipes\"", ":", "[", "R1", "]", "}" >>) =>
              ~outcome.success
        /\ (GotText /\ ProviderText
                = << "{", "\"recipes\"", ":", "[", "R2", ",", "R1", ",", "R2", ",", "R1", "]", "}" >>) =>
              ~outcome.success
        /\ (GotText /\ ProviderText = << "oops" >>) =>
              /\ ~outcome.success
              /\ outcome.raw_response = << "oops" >>

\* A successful outcome with three recipes, two of them different.
C10_Witness ==
    /\ pc = "recipes_done"
    /\ outcome.success
    /\ Len(outcome.recipes) = 3
    /\ outcome.recipes[1] # outcome.recipes[2]

----------------------------------------------------------------------------
\* Properties of the query and of the request of generate_recipes.

\* The user turn of the request the provider received last.
SentQuery == requests[Len(requests)].messages[Len(requests[Len(requests)].messages)].content

Line(label, text) == << << label >> \o text >>
ListLine(label, o) ==
    IF o.some THEN Line(label, JoinTexts(o.val, << ", " >>)) ELSE << >>

\* One labeled line per supplied field, in the fixed order, Units last.
SuppliedLines(a) ==
    Line("Ingredients: ", JoinTexts(a.ingredients, << ", " >>))
      \o ListLine("Dietary preferences: ", a.dietary_preferences)
      \o ListLine("Allergens to avoid: ", a.allergens)
      \o ListLine("Excluded ingredients: ", a.excluded_ingredients)
      \o (IF a.cuisine.some THEN Line("Cuisine preference: ", a.cuisine.val) ELSE << >>)
      \o (IF a.time_limit.some
          THEN << << "Time limit: ", ToString(a.time_limit.val), " minutes" >> >>
          ELSE << >>)
      \o (IF a.servings.some
          THEN << << "Servings: ", ToString(a.servings.val) >> >>
          ELSE << >>)
      \o Line("Units: ", IF a.units.some THEN a.units.val ELSE << "metric" >>)

\* C11: the query generate_recipes sends is the newline-joined list of the
\* labeled lines of the supplied fields in the fixed order; the Units line
\* is always there and last, every supplied optional field has its line and
\* a field that was not supplied has none.
C11_QueryLines ==
    (pc = "recipes_done" /\ Len(requests) >= 1) =>
        SentQuery = JoinTexts(SuppliedLines(args), << "\n" >>)

\* C12: every request generate_recipes sends has temperature 0.3, max tokens
\* 2000 and exactly three turns, the system prompt, the system prompt again
\* and a user turn; the request of the call that just returned has the
\* caller's model, or gpt-4o-mini when none was given, and the query composed
\* from the arguments of that call as its user turn.
C12_RecipeRequest ==
    /\ \A i \in 1 .. Len(requests) :
          /\ requests[i].temperature = 3
          /\ requests[i].max_tokens = 2000
          /\ Len(requests[i].messages) = 3
          /\ requests[i].messages[1]
                = [role |-> "system", content |-> CULINARY_ASSISTANT_PROMPT]
          /\ requests[i].messages[2]
                = [role |-> "system", content |-> CULINARY_ASSISTANT_PROMPT]
          /\ requests[i].messages[3].role = "user"
    /\ (pc = "recipes_done" /\ api_key) =>
          /\ Len(requests) >= 1
          /\ requests[Len(requests)].model
                = (IF args.model = "" THEN "gpt-4o-mini" ELSE args.model)
          /\ SentQuery = UserQuery(args)

\* A second call with no model given has returned, its query different from
\* that of the first call.
C12_Witness ==
    /\ pc = "recipes_done"
    /\ Len(requests) = 2
    /\ args.model = ""
    /\ requests[1].messages[3] # requests[2].messages[3]

----------------------------------------------------------------------------
\* Properties of an aborted stream and of the provider requests of a call.

\* C13: when the consumer closes the stream, and from then on, no event is
\* emitted, no chunk is asked of the provider stream and no request is sent
\* to the provider.
C13_NothingAfterAbort ==
    [][(pc' = "closed" \/ pc = "closed")
          => (events' = events /\ chunks' = chunks /\ requests' = requests)]_vars

\* A stream closed after a content event and before any terminal event.
C13_Witness ==
    /\ pc = "closed"
    /\ Len(events) >= 2
    /\ events[Len(events)].type = "content"
    /\ Terminals = { }

\* C14: a call sends at most one request to the provider; a failure of the
\* provider comes after that one request and reaches the caller once, as the
\* error chat_completion raises or as the one error event of the stream.
C14_NoRetry ==
    /\ Len(requests) <= 1
    /\ raised \in ProviderExcs =>
          /\ Len(requests) = 1
          /\ pc = "chat_done" => (result.kind = "raised" /\ events = << >>)
          /\ pc # "chat_done" =>
                (Len(SelectType(events, "error")) = 1 /\ result = NoResult)

\* Both kinds of call failed at the provider: chat_completion has raised, or
\* the stream has ended after a failure between two chunks.
C14_Witness ==
    /\ raised \in ProviderExcs
    /\ Len(requests) = 1
    /\ \/ pc = "chat_done" /\ result.kind = "raised"
       \/ pc = "done" /\ Len(chunks) = 2

====
